---- MODULE Spec2Model ----
(***************************************************************************)
(* dash: a command-line time tracker (src/dash.py).  Every invocation runs *)
(* one command: it loads the three pickled stores (meta, projects,         *)
(* records) from ~/.dash, works on the loaded copies and saves what it     *)
(* changed.  The model keeps the three files, the wall clock and what the  *)
(* last invocation was given, loaded, printed and returned.                *)
(***************************************************************************)
EXTENDS Integers, FiniteSets, Sequences, TLC

\* Bounds of the model.
MaxClock == 7
MaxRuns == 6
MaxRaceRuns == 3
Procs == {1, 2}
ProjectNames == {"p", "q"}
Phases == {"A", "B"}

\* Python's Optional: None is <<>>, a present value x is <<x>>.
None == <<>>
Some(x) == <<x>>
Val(o) == o[1]

\* A file that exists but holds no complete pickle: open(path, "wb") has
\* truncated it and the dump has not been written yet.
EmptyFile == <<"empty", "file">>

VARIABLES
  data_dir,       \* ~/.dash exists
  meta_file,      \* ~/.dash/meta:     None while the file is absent, EmptyFile
                  \* while it is being written, else Some(Meta)
  projects_file,  \* ~/.dash/projects: likewise, Some(set of Project)
  records_file,   \* ~/.dash/records:  likewise, Some(set of Record)
  clock,          \* the wall clock: the instant of the last invocation
  argv,           \* sys.argv[1:] of the last invocation (<<>> before the first)
  loaded,         \* what load() returned to the last invocation
  stdout,         \* what the last invocation printed
  exit_code,      \* the exit status of the last invocation
  invocations,    \* how many invocations have run so far
  procs           \* for each shell of the racing runs: the position and the
                  \* local variables of its current or last invocation

vars == <<data_dir, meta_file, projects_file, records_file, clock, argv, loaded, stdout,
          exit_code, invocations, procs>>

----------------------------------------------------------------------------
\* namedtuples

Meta(current_project) == [current_project |-> current_project]

Record(project, phase, start, end) ==
  [project |-> project, phase |-> phase, start |-> start, end |-> end]

Project(name) == [name |-> name]

----------------------------------------------------------------------------
\* Utils

\* search(set_, name=...): the first item whose name matches, else None.
search(set_, name) ==
  LET found == {item \in set_ : item.name = name}
  IN IF found = {} THEN None ELSE Some(CHOOSE item \in found : TRUE)

\* Faulty variant of replace: the old item is not removed.
replace_keeps_item(set_, item, end) ==
  set_ \cup {[item EXCEPT !.end = end]}

\* replace(set_, item, end=...): remove item, add item._replace(end=end).
replace(set_, item, end) ==
  (set_ \ {item}) \cup {[item EXCEPT !.end = end]}

----------------------------------------------------------------------------
\* Storage

\* Faulty variant of ensure_paths: the existence test is missing.
ensure_paths_overwrites(file, default) == Some(default)

\* ensure_paths creates a file with its default content only when it is absent.
ensure_paths(file, default) == IF file = None THEN Some(default) ELSE file

ensured_meta == ensure_paths(meta_file, Meta(None))
ensured_projects == ensure_paths(projects_file, {})
ensured_records == ensure_paths(records_file, {})

load ==
  [meta |-> Val(ensured_meta),
   projects |-> Val(ensured_projects),
   records |-> Val(ensured_records)]

\* pickle.load raises EOFError on a file without a complete pickle; the
\* exception is not caught and the process dies in load().
load_fails == EmptyFile \in {ensured_meta, ensured_projects, ensured_records}

\* What the history holds for an invocation that died in load().
LoadError == [error |-> "EOFError"]

\* Faulty variant of save: a store whose argument is None is reset to its
\* default instead of being left alone.
save_resets_missing(meta, projects, records) ==
  /\ meta_file' = IF meta # None THEN meta ELSE Some(Meta(None))
  /\ projects_file' = IF projects # None THEN projects ELSE Some({})
  /\ records_file' = IF records # None THEN records ELSE Some({})

\* save(meta=None, projects=None, records=None): a store is written only
\* when its argument is not None; ensure_paths runs first.
save(meta, projects, records) ==
  /\ meta_file' = IF meta # None THEN meta ELSE ensured_meta
  /\ projects_file' = IF projects # None THEN projects ELSE ensured_projects
  /\ records_file' = IF records # None THEN records ELSE ensured_records

\* A command that loads and returns without saving: load's ensure_paths
\* is the only write.
no_save == save(None, None, None)

----------------------------------------------------------------------------
\* Query layer

get_current_project(meta, projects) ==
  IF meta.current_project = None THEN None
  ELSE search(projects, Val(meta.current_project))

\* Faulty variant of filter_project_records: the project test is missing.
filter_project_records_unfiltered(project, records) ==
  {r \in records : TRUE}

filter_project_records(project, records) ==
  {r \in records : r.project = project.name}

\* Faulty variant of get_last_record: min instead of max.
get_last_record_min(project, records) ==
  LET rs == {r \in records : r.project = project.name}
  IN IF rs = {} THEN {None}
     ELSE {Some(r) : r \in {x \in rs : \A y \in rs : x.start <= y.start}}

\* max(records, key=start) returns one record of greatest start (which one
\* among ties depends on the set's iteration order), None on an empty
\* sequence.  The operator is the set of possible return values.
get_last_record(project, records) ==
  LET rs == filter_project_records(project, records)
  IN IF rs = {} THEN {None}
     ELSE {Some(r) : r \in {x \in rs : \A y \in rs : y.start <= x.start}}

\* Faulty variant of require_current_project: the named project is not
\* looked up in the project set.
require_current_project_unchecked(meta, projects) ==
  IF meta.current_project = None THEN None
  ELSE Some(Project(Val(meta.current_project)))

require_current_project(meta, projects) == get_current_project(meta, projects)

----------------------------------------------------------------------------
\* CLI

\* What one command does after load(): its exit status, the arguments it
\* passes to save (None: that store is not written) and what it prints.
Outcome(code, meta, projects, records, out) ==
  [exit |-> code, meta |-> meta, projects |-> projects, records |-> records,
   stdout |-> out]

\* sys.exit("Current project not set"): status 1, the message goes to stderr.
exit_no_project == Outcome(1, None, None, None, <<>>)

\* The end of an invocation: the stores are written as the command asked,
\* the process exits.
Finish(args, time, l, out) ==
  /\ data_dir' = TRUE
  /\ save(out.meta, out.projects, out.records)
  /\ clock' = time
  /\ argv' = args
  /\ loaded' = l
  /\ stdout' = out.stdout
  /\ exit_code' = out.exit
  /\ invocations' = invocations + 1
  /\ UNCHANGED procs

\* Faulty variant of project_body: a new project is not added to the set.
project_body_forgets_add(project_name, meta, projects, records) ==
  IF project_name = None \/ project_name = Some("")
  THEN Outcome(0, None, None, None, <<<<"Current project", meta.current_project>>>>)
  ELSE Outcome(0, Some(Meta(Some(Val(project_name)))), Some(projects), Some(records),
               <<<<"Setting project to", Val(project_name)>>>>)

\* Faulty variant of project_body: a created project replaces the set.
project_body_replaces_set(project_name, meta, projects, records) ==
  IF project_name = None \/ project_name = Some("")
  THEN Outcome(0, None, None, None, <<<<"Current project", meta.current_project>>>>)
  ELSE LET name == Val(project_name)
           found == search(projects, name)
       IN IF found # None
          THEN Outcome(0, Some(Meta(Some(name))), Some(projects), Some(records),
                       <<<<"Setting project to", name>>>>)
          ELSE Outcome(0, Some(Meta(Some(name))),
                       Some({Project(name)}), Some(records),
                       <<<<"Creating project", name>>>>)

\* An invocation whose load() raised: a traceback on stderr, status 1,
\* nothing saved.
died == Outcome(1, None, None, None, <<>>)

dies_in_load(args, time) == Finish(args, time, LoadError, died)

\* A shell that is not running dash.
Idle ==
  [pc |-> <<"idle", "">>, argv |-> <<>>, meta |-> Meta(None), projects |-> {},
   records |-> {}, last_record |-> None, rows |-> <<>>, time |-> 0,
   out |-> exit_no_project]

\* project(project_name=None), after load().
project_body(project_name, meta, projects, records) ==
  IF project_name = None \/ project_name = Some("")
  THEN Outcome(0, None, None, None, <<<<"Current project", meta.current_project>>>>)
  ELSE LET name == Val(project_name)
           found == search(projects, name)
       IN IF found # None
          THEN Outcome(0, Some(Meta(Some(name))), Some(projects), Some(records),
                       <<<<"Setting project to", name>>>>)
          ELSE Outcome(0, Some(Meta(Some(name))),
                       Some(projects \cup {Project(name)}), Some(records),
                       <<<<"Creating project", name>>>>)

project(project_name, time) ==
  IF load_fails THEN dies_in_load(<<"project">> \o project_name, time) ELSE
  LET l == load
  IN Finish(<<"project">> \o project_name, time, l,
            project_body(project_name, l.meta, l.projects, l.records))

\* Faulty variant of start_body: the open record is not closed on a phase switch.
start_body_without_close(phase, proj, records, last_record, time) ==
  IF phase = None /\ last_record = None
  THEN Outcome(1, None, None, None, <<"Last record not found - phase required">>)
  ELSE IF last_record # None /\ Val(last_record).end = None
  THEN IF phase = None \/ Val(phase) = Val(last_record).phase
       THEN Outcome(0, None, None, None, <<>>)
       ELSE Outcome(0, None, None,
                    Some(records
                           \cup {Record(proj.name, Val(phase), time, None)}),
                    <<>>)
  ELSE LET ph == IF phase = None THEN Val(last_record).phase ELSE Val(phase)
       IN Outcome(0, None, None,
                  Some(records \cup {Record(proj.name, ph, time, None)}),
                  <<>>)

\* Faulty variant of start_body: a start with the phase already active is
\* taken for a phase switch.
start_body_ignores_same_phase(phase, proj, records, last_record, time) ==
  IF phase = None /\ last_record = None
  THEN Outcome(1, None, None, None, <<"Last record not found - phase required">>)
  ELSE IF last_record # None /\ Val(last_record).end = None
  THEN IF phase = None
       THEN Outcome(0, None, None, None, <<>>)
       ELSE Outcome(0, None, None,
                    Some(replace(records, Val(last_record), Some(time))
                           \cup {Record(proj.name, Val(phase), time, None)}),
                    <<>>)
  ELSE LET ph == IF phase = None THEN Val(last_record).phase ELSE Val(phase)
       IN Outcome(0, None, None,
                  Some(records \cup {Record(proj.name, ph, time, None)}),
                  <<>>)

\* Faulty variant of start_body: resuming reopens the closed last record
\* instead of adding a record.
start_body_reopens(phase, proj, records, last_record, time) ==
  IF phase = None /\ last_record = None
  THEN Outcome(1, None, None, None, <<"Last record not found - phase required">>)
  ELSE IF last_record # None /\ Val(last_record).end = None
  THEN IF phase = None \/ Val(phase) = Val(last_record).phase
       THEN Outcome(0, None, None, None, <<>>)
       ELSE Outcome(0, None, None,
                    Some(replace(records, Val(last_record), Some(time))
                           \cup {Record(proj.name, Val(phase), time, None)}),
                    <<>>)
  ELSE IF phase = None
  THEN Outcome(0, None, None, Some(replace(records, Val(last_record), None)), <<>>)
  ELSE Outcome(0, None, None,
               Some(records \cup {Record(proj.name, Val(phase), time, None)}),
               <<>>)

\* Faulty variant of start_body: the missing phase is reported but the
\* status is 0.
start_body_returns_0(phase, proj, records, last_record, time) ==
  IF phase = None /\ last_record = None
  THEN Outcome(0, None, None, None, <<"Last record not found - phase required">>)
  ELSE IF last_record # None /\ Val(last_record).end = None
  THEN IF phase = None \/ Val(phase) = Val(last_record).phase
       THEN Outcome(0, None, None, None, <<>>)
       ELSE Outcome(0, None, None,
                    Some(replace(records, Val(last_record), Some(time))
                           \cup {Record(proj.name, Val(phase), time, None)}),
                    <<>>)
  ELSE LET ph == IF phase = None THEN Val(last_record).phase ELSE Val(phase)
       IN Outcome(0, None, None,
                  Some(records \cup {Record(proj.name, ph, time, None)}),
                  <<>>)

\* start(phase=None), after load(), require_current_project() and
\* get_last_record() returned proj and last_record.
start_body(phase, proj, records, last_record, time) ==
  IF phase = None /\ last_record = None
  THEN Outcome(1, None, None, None, <<"Last record not found - phase required">>)
  ELSE IF last_record # None /\ Val(last_record).end = None
  THEN IF phase = None \/ Val(phase) = Val(last_record).phase
       THEN Outcome(0, None, None, None, <<>>)
       ELSE Outcome(0, None, None,
                    Some(replace(records, Val(last_record), Some(time))
                           \cup {Record(proj.name, Val(phase), time, None)}),
                    <<>>)
  ELSE LET ph == IF phase = None THEN Val(last_record).phase ELSE Val(phase)
       IN Outcome(0, None, None,
                  Some(records \cup {Record(proj.name, ph, time, None)}),
                  <<>>)

start(phase, time) ==
  IF load_fails THEN dies_in_load(<<"start">> \o phase, time) ELSE
  LET l == load
      cur == require_current_project(l.meta, l.projects)
  IN IF cur = None
     THEN Finish(<<"start">> \o phase, time, l, exit_no_project)
     ELSE \E last_record \in get_last_record(Val(cur), l.records) :
            Finish(<<"start">> \o phase, time, l,
                   start_body(phase, Val(cur), l.records, last_record, time))

\* Faulty variant of end_body: a record that is already closed is left alone.
end_body_only_open(records, last_record, time) ==
  IF last_record = None \/ Val(last_record).end # None
  THEN Outcome(0, None, None, None, <<>>)
  ELSE Outcome(0, None, None,
               Some(replace(records, Val(last_record), Some(time))), <<>>)

\* Faulty variant of end_body: the stamp goes to the start field.
end_body_stamps_start(records, last_record, time) ==
  IF last_record = None
  THEN Outcome(0, None, None, None, <<>>)
  ELSE Outcome(0, None, None,
               Some((records \ {Val(last_record)})
                      \cup {[Val(last_record) EXCEPT !.start = time]}), <<>>)

\* end(), after load(), require_current_project() and get_last_record().
end_body(records, last_record, time) ==
  IF last_record = None
  THEN Outcome(0, None, None, None, <<>>)
  ELSE Outcome(0, None, None,
               Some(replace(records, Val(last_record), Some(time))), <<>>)

end(time) ==
  IF load_fails THEN dies_in_load(<<"end">>, time) ELSE
  LET l == load
      cur == require_current_project(l.meta, l.projects)
  IN IF cur = None
     THEN Finish(<<"end">>, time, l, exit_no_project)
     ELSE \E last_record \in get_last_record(Val(cur), l.records) :
            Finish(<<"end">>, time, l, end_body(l.records, last_record, time))

\* remove_last(), after load(), require_current_project() and get_last_record().
remove_last_body(records, last_record) ==
  IF last_record = None
  THEN Outcome(0, None, None, None, <<>>)
  ELSE Outcome(0, None, None, Some(records \ {Val(last_record)}), <<>>)

remove_last(time) ==
  IF load_fails THEN dies_in_load(<<"remove-last">>, time) ELSE
  LET l == load
      cur == require_current_project(l.meta, l.projects)
  IN IF cur = None
     THEN Finish(<<"remove-last">>, time, l, exit_no_project)
     ELSE \E last_record \in get_last_record(Val(cur), l.records) :
            Finish(<<"remove-last">>, time, l,
                   remove_last_body(l.records, last_record))

status(time) ==
  IF load_fails THEN dies_in_load(<<"status">>, time) ELSE
  LET l == load
      cur == get_current_project(l.meta, l.projects)
  IN IF cur = None
     THEN Finish(<<"status">>, time, l,
                 Outcome(0, None, None, None, <<"Current project not set">>))
     ELSE \E last_record \in get_last_record(Val(cur), l.records) :
            Finish(<<"status">>, time, l,
                   Outcome(0, None, None, None,
                           << <<"Currently working on project", Val(cur).name>>,
                              <<"Last record", last_record>> >>))

\* Faulty variant of sorted: descending.
RECURSIVE sorted_descending(_)
sorted_descending(rs) ==
  IF rs = {} THEN {<<>>}
  ELSE UNION {{<<r>> \o rest : rest \in sorted_descending(rs \ {r})} :
              r \in {x \in rs : \A y \in rs : x.start >= y.start}}

\* sorted(records, key=start): the orders an ascending sort by start can
\* produce (records of equal start come in the set's iteration order).
RECURSIVE sorted(_)
sorted(rs) ==
  IF rs = {} THEN {<<>>}
  ELSE UNION {{<<r>> \o rest : rest \in sorted(rs \ {r})} :
              r \in {x \in rs : \A y \in rs : x.start <= y.start}}

\* The header row of log.
log_header == <<"PHASE", "START", "END", "DELTA">>

\* One printed row of log: phase, start, end and the delta, which runs to
\* the reading of now() for an open record.  The column layout is not
\* modelled.
log_row(record, time) ==
  [phase |-> record.phase, start |-> record.start, end |-> record.end,
   delta |-> (IF record.end # None THEN Val(record.end) ELSE time) - record.start]

\* The loop of log over the sorted records: now() is called once for each
\* open record, so the first open row gets the reading time and every
\* later open row a reading of its own, which is the one before or a later
\* one.  Each result has the rows printed and the last reading taken.
RECURSIVE log_rows(_, _, _)
log_rows(rows, time, read) ==
  IF rows = <<>> THEN {[stdout |-> <<>>, time |-> time]}
  ELSE IF Head(rows).end # None
  THEN {[stdout |-> <<log_row(Head(rows), time)>> \o rest.stdout, time |-> rest.time]
        : rest \in log_rows(Tail(rows), time, read)}
  ELSE UNION {{[stdout |-> <<log_row(Head(rows), t)>> \o rest.stdout, time |-> rest.time]
               : rest \in log_rows(Tail(rows), t, TRUE)}
              : t \in IF read THEN {time, time + 1} ELSE {time}}

log(time) ==
  IF load_fails THEN dies_in_load(<<"log">>, time) ELSE
  LET l == load
      cur == require_current_project(l.meta, l.projects)
  IN IF cur = None
     THEN Finish(<<"log">>, time, l, exit_no_project)
     ELSE \E rows \in sorted(filter_project_records(Val(cur), l.records)) :
            \E printed \in log_rows(rows, time, FALSE) :
              Finish(<<"log">>, printed.time, l,
                     Outcome(0, None, None, None, <<log_header>> \o printed.stdout))

\* usage() does not touch the stores.
usage(time) ==
  /\ clock' = time
  /\ argv' = <<"usage">>
  /\ stdout' = <<"Usage">>
  /\ exit_code' = 1
  /\ invocations' = invocations + 1
  /\ UNCHANGED <<data_dir, meta_file, projects_file, records_file, loaded, procs>>

----------------------------------------------------------------------------
\* Inputs of an invocation.
NameArgs == {None, Some("")} \cup {Some(n) : n \in ProjectNames}
PhaseArgs == {None} \cup {Some(ph) : ph \in Phases}

\* The instants the next invocation can run at: the clock strictly
\* increases from one invocation to the next.
Later == {t \in {clock + 1} : t <= MaxClock}

Init ==
  /\ data_dir = FALSE
  /\ meta_file = None
  /\ projects_file = None
  /\ records_file = None
  /\ clock = 0
  /\ argv = <<>>
  /\ loaded = [meta |-> Meta(None), projects |-> {}, records |-> {}]
  /\ stdout = <<>>
  /\ exit_code = 0
  /\ invocations = 0
  /\ procs = [p \in Procs |-> Idle]

Next ==
  \/ \E time \in Later : \E project_name \in NameArgs : project(project_name, time)
  \/ \E time \in Later : \E phase \in PhaseArgs : start(phase, time)
  \/ \E time \in Later : end(time)
  \/ \E time \in Later : remove_last(time)
  \/ \E time \in Later : status(time)
  \/ \E time \in Later : log(time)
  \/ \E time \in Later : usage(time)

Spec == Init /\ [][Next]_vars

\* The instants the next invocation can run at when two invocations may
\* read the same timestamp: the clock never goes backwards.
NowOrLater == {t \in {clock, clock + 1} : 1 <= t /\ invocations < MaxRuns}

\* The same program with a clock that is only non-decreasing.
NextTie ==
  \/ \E time \in NowOrLater : \E project_name \in NameArgs : project(project_name, time)
  \/ \E time \in NowOrLater : \E phase \in PhaseArgs : start(phase, time)
  \/ \E time \in NowOrLater : end(time)
  \/ \E time \in NowOrLater : remove_last(time)
  \/ \E time \in NowOrLater : status(time)
  \/ \E time \in NowOrLater : log(time)
  \/ \E time \in NowOrLater : usage(time)

SpecTie == Init /\ [][NextTie]_vars

----------------------------------------------------------------------------
\* Two shells racing.  There is no lock: every test, open, dump and read of
\* a file is a step of its own, and the steps of two invocations
\* interleave.

RaceArgs ==
  {<<"project", n>> : n \in ProjectNames} \cup {<<"start", ph>> : ph \in Phases}
    \cup {<<"start">>, <<"end">>, <<"remove-last">>, <<"log">>}

\* The three files in the order ensure_paths, load and save go through them.
Files == <<"meta", "projects", "records">>

index_of(f) == CHOOSE i \in 1..3 : Files[i] = f

default_of(f) == IF f = "meta" THEN Meta(None) ELSE {}

file_of(f) ==
  IF f = "meta" THEN meta_file
  ELSE IF f = "projects" THEN projects_file ELSE records_file

\* The file f gets content; the other two files are not touched.
write_file(f, content) ==
  /\ meta_file' = IF f = "meta" THEN content ELSE meta_file
  /\ projects_file' = IF f = "projects" THEN content ELSE projects_file
  /\ records_file' = IF f = "records" THEN content ELSE records_file

\* Where an invocation goes after ensure_paths is done with file f.
after_ensure(f) ==
  IF f = "records" THEN <<"read", "meta">> ELSE <<"exists", Files[index_of(f) + 1]>>

\* Where an invocation goes after load has read file f.
after_read(f) ==
  IF f = "records" THEN <<"run", "">> ELSE <<"read", Files[index_of(f) + 1]>>

\* save's loop from the i-th file on: the next file whose argument is not
\* None is opened; after the last one the command returns.
save_from(out, i) ==
  LET todo == {k \in i..3 : out[Files[k]] # None}
  IN IF todo = {} THEN <<"idle", "">>
     ELSE <<"open", Files[CHOOSE k \in todo : \A m \in todo : k <= m]>>

\* The shell's invocation is over: it is the last invocation that ran.
exits(p, local) ==
  /\ procs' = [procs EXCEPT ![p] = [local EXCEPT !.pc = <<"idle", "">>]]
  /\ argv' = local.argv
  /\ loaded' = [meta |-> local.meta, projects |-> local.projects,
                records |-> local.records]
  /\ stdout' = local.out.stdout
  /\ exit_code' = local.out.exit
  /\ invocations' = invocations + 1

\* An uncaught exception in ensure_paths or load: status 1.
dies(p) ==
  /\ procs' = [procs EXCEPT ![p] = [procs[p] EXCEPT !.pc = <<"idle", "">>, !.out = died]]
  /\ argv' = procs[p].argv
  /\ loaded' = LoadError
  /\ stdout' = <<>>
  /\ exit_code' = 1
  /\ invocations' = invocations + 1

goto(p, pc) ==
  /\ procs' = [procs EXCEPT ![p].pc = pc]
  /\ UNCHANGED <<argv, loaded, stdout, exit_code, invocations>>

\* main: a shell starts a command; load() calls ensure_paths(), which
\* tests whether ~/.dash exists.
invoke(p, args) ==
  /\ procs[p].pc = <<"idle", "">>
  /\ invocations + Cardinality({q \in Procs : procs[q].pc # <<"idle", "">>}) < MaxRaceRuns
  /\ procs' = [procs EXCEPT ![p] =
                 [Idle EXCEPT !.argv = args,
                              !.pc = IF data_dir THEN <<"exists", "meta">>
                                     ELSE <<"makedirs", "">>]]
  /\ UNCHANGED <<data_dir, meta_file, projects_file, records_file, clock, argv,
                 loaded, stdout, exit_code, invocations>>

\* ensure_paths: os.makedirs(data_dir), which raises FileExistsError when
\* the directory has been made since the test.
makedirs(p) ==
  /\ procs[p].pc = <<"makedirs", "">>
  /\ IF data_dir
     THEN dies(p) /\ UNCHANGED data_dir
     ELSE data_dir' = TRUE /\ goto(p, <<"exists", "meta">>)
  /\ UNCHANGED <<meta_file, projects_file, records_file, clock>>

\* ensure_paths: if not os.path.exists(path)
ensure_exists(p, f) ==
  /\ procs[p].pc = <<"exists", f>>
  /\ goto(p, IF file_of(f) # None THEN after_ensure(f) ELSE <<"create", f>>)
  /\ UNCHANGED <<data_dir, meta_file, projects_file, records_file, clock>>

\* ensure_paths: open(path, "wb") creates the file, or truncates it when
\* another shell has written it since the test.
ensure_open(p, f) ==
  /\ procs[p].pc = <<"create", f>>
  /\ write_file(f, EmptyFile)
  /\ goto(p, <<"default", f>>)
  /\ UNCHANGED <<data_dir, clock>>

\* ensure_paths: pickle.dump of the default, and the file is closed.
ensure_dump(p, f) ==
  /\ procs[p].pc = <<"default", f>>
  /\ write_file(f, Some(default_of(f)))
  /\ goto(p, after_ensure(f))
  /\ UNCHANGED <<data_dir, clock>>

\* load(): pickle.load of one file; EOFError on a file that is being written.
load_file(p, f) ==
  /\ procs[p].pc = <<"read", f>>
  /\ IF file_of(f) = EmptyFile
     THEN dies(p)
     ELSE /\ procs' = [procs EXCEPT ![p] =
                         [procs[p] EXCEPT ![f] = Val(file_of(f)), !.pc = after_read(f)]]
          /\ UNCHANGED <<argv, loaded, stdout, exit_code, invocations>>
  /\ UNCHANGED <<data_dir, meta_file, projects_file, records_file, clock>>

\* The phase argument of start: sys.argv[2] when it is given.
phase_of(args) == IF Len(args) = 2 THEN Some(args[2]) ELSE None

\* The readings now() can return: the clock is shared by the shells and
\* never goes backwards; two calls can read the same instant.
readings == {t \in {clock, clock + 1} : 1 <= t}

\* The command is about to call save() or to return: save() begins with
\* ensure_paths, which finds the directory and the three files in place,
\* and writes nothing when all its arguments are None.
proceed(p, local) ==
  IF save_from(local.out, 1) = <<"idle", "">>
  THEN exits(p, local)
  ELSE /\ procs' = [procs EXCEPT ![p] = [local EXCEPT !.pc = save_from(local.out, 1)]]
       /\ UNCHANGED <<argv, loaded, stdout, exit_code, invocations>>

\* The command body from the return of load() to its first call of now(),
\* or to save() or the return when it calls now() nowhere on its path:
\* project; the exit of require_current_project; start() without a phase
\* and without a last record; end() and remove_last() without a last
\* record; remove_last(); the header row of log.
run(p) ==
  /\ procs[p].pc = <<"run", "">>
  /\ LET local == procs[p]
         args == local.argv
     IN IF args[1] = "project"
        THEN proceed(p, [local EXCEPT
                           !.out = project_body(Some(args[2]), local.meta,
                                                local.projects, local.records)])
        ELSE LET cur == require_current_project(local.meta, local.projects)
             IN IF cur = None
                THEN proceed(p, [local EXCEPT !.out = exit_no_project])
                ELSE IF args[1] = "log"
                THEN \E rows \in sorted(filter_project_records(Val(cur), local.records)) :
                       LET printing ==
                             [local EXCEPT !.rows = rows,
                                           !.out = Outcome(0, None, None, None,
                                                           <<log_header>>)]
                       IN IF rows = <<>>
                          THEN proceed(p, printing)
                          ELSE /\ procs' = [procs EXCEPT ![p] =
                                              [printing EXCEPT !.pc = <<"row", "">>]]
                               /\ UNCHANGED <<argv, loaded, stdout, exit_code,
                                              invocations>>
                ELSE \E last_record \in get_last_record(Val(cur), local.records) :
                       IF args[1] = "remove-last"
                       THEN proceed(p, [local EXCEPT
                                          !.out = remove_last_body(local.records,
                                                                   last_record)])
                       ELSE IF args[1] = "start" /\ phase_of(args) = None
                                 /\ last_record = None
                       THEN proceed(p, [local EXCEPT
                                          !.out = start_body(None, Val(cur), local.records,
                                                             None, clock)])
                       ELSE IF args[1] = "end" /\ last_record = None
                       THEN proceed(p, [local EXCEPT
                                          !.out = end_body(local.records, None, clock)])
                       ELSE /\ procs' = [procs EXCEPT ![p] =
                                           [local EXCEPT !.last_record = last_record,
                                                         !.pc = <<"now", "">>]]
                            /\ UNCHANGED <<argv, loaded, stdout, exit_code,
                                           invocations>>
  /\ UNCHANGED <<data_dir, meta_file, projects_file, records_file, clock>>

\* start: time = now(), and end: replace(records, last_record, end=now());
\* then the rest of the command up to save() or the return.
now(p) ==
  /\ procs[p].pc = <<"now", "">>
  /\ \E time \in readings :
       LET local == procs[p]
           cur == require_current_project(local.meta, local.projects)
       IN /\ clock' = time
          /\ proceed(p, [local EXCEPT
                           !.time = time,
                           !.out = IF local.argv[1] = "start"
                                   THEN start_body(phase_of(local.argv), Val(cur),
                                                   local.records, local.last_record,
                                                   time)
                                   ELSE end_body(local.records, local.last_record,
                                                 time)])
  /\ UNCHANGED <<data_dir, meta_file, projects_file, records_file>>

\* log: one pass of the loop; now() is called when the record is open.
\* After the last row the command returns.
print_row(p) ==
  /\ procs[p].pc = <<"row", "">>
  /\ LET local == procs[p]
         record == Head(local.rows)
     IN \E time \in IF record.end = None THEN readings ELSE {clock} :
          LET printed ==
                [local EXCEPT !.rows = Tail(local.rows),
                              !.time = time,
                              !.out = [local.out EXCEPT
                                         !.stdout = Append(@, log_row(record, time))]]
          IN /\ clock' = time
             /\ IF printed.rows = <<>>
                THEN exits(p, printed)
                ELSE /\ procs' = [procs EXCEPT ![p] = printed]
                     /\ UNCHANGED <<argv, loaded, stdout, exit_code, invocations>>
  /\ UNCHANGED <<data_dir, meta_file, projects_file, records_file>>

\* Faulty variant of save_open: the content of the file is read back and
\* merged into the set that will be dumped.
save_open_merging(p, f) ==
  /\ procs[p].pc = <<"open", f>>
  /\ write_file(f, EmptyFile)
  /\ procs' = [procs EXCEPT ![p] =
                 [procs[p] EXCEPT
                    !.pc = <<"dump", f>>,
                    !.out = IF f = "records" /\ records_file \notin {None, EmptyFile}
                            THEN [procs[p].out EXCEPT
                                    !.records = Some(Val(@) \cup Val(records_file))]
                            ELSE procs[p].out]]
  /\ UNCHANGED <<argv, loaded, stdout, exit_code, invocations>>
  /\ UNCHANGED <<data_dir, clock>>

\* save(): open(path, "wb") truncates the file.
save_open(p, f) ==
  /\ procs[p].pc = <<"open", f>>
  /\ write_file(f, EmptyFile)
  /\ goto(p, <<"dump", f>>)
  /\ UNCHANGED <<data_dir, clock>>

\* save(): pickle.dump(data, f), and the file is closed; after the last
\* file the command returns.
save_dump(p, f) ==
  /\ procs[p].pc = <<"dump", f>>
  /\ write_file(f, procs[p].out[f])
  /\ IF save_from(procs[p].out, index_of(f) + 1) = <<"idle", "">>
     THEN exits(p, procs[p])
     ELSE goto(p, save_from(procs[p].out, index_of(f) + 1))
  /\ UNCHANGED <<data_dir, clock>>

FileNames == {"meta", "projects", "records"}

NextRace ==
  \/ \E p \in Procs : \E args \in RaceArgs : invoke(p, args)
  \/ \E p \in Procs : makedirs(p)
  \/ \E p \in Procs : \E f \in FileNames : ensure_exists(p, f)
  \/ \E p \in Procs : \E f \in FileNames : ensure_open(p, f)
  \/ \E p \in Procs : \E f \in FileNames : ensure_dump(p, f)
  \/ \E p \in Procs : \E f \in FileNames : load_file(p, f)
  \/ \E p \in Procs : run(p)
  \/ \E p \in Procs : now(p)
  \/ \E p \in Procs : print_row(p)
  \/ \E p \in Procs : \E f \in FileNames : save_open(p, f)
  \/ \E p \in Procs : \E f \in FileNames : save_dump(p, f)

SpecRace == Init /\ [][NextRace]_vars

\* The stores as the next load() will return them.
Persisted == load

----------------------------------------------------------------------------
\* Vocabulary of the properties, stated without the query layer.

RecordsOf(name, records) == {r \in records : r.project = name}

OpenRecordsOf(name, records) == {r \in RecordsOf(name, records) : r.end = None}

\* r is a record of project name with the greatest start.
IsLatest(r, name, records) ==
  /\ r \in RecordsOf(name, records)
  /\ \A s \in RecordsOf(name, records) : s.start <= r.start

\* The stores l have a current project: meta names a project of the set.
HasCurrent(l) ==
  /\ l.meta.current_project # None
  /\ \E p \in l.projects : p.name = Val(l.meta.current_project)

CurrentName(l) == Val(l.meta.current_project)

\* The last invocation was command cmd and had a current project.
Ran(cmd) == argv # <<>> /\ argv[1] = cmd /\ HasCurrent(loaded)

----------------------------------------------------------------------------
\* C1: after any sequence of project/start/end/remove_last commands run
\* with a strictly increasing clock, every project has at most one record
\* with end = None in the persisted record set.
C1_OneOpenRecordPerProject ==
  \A r \in Persisted.records :
    Cardinality(OpenRecordsOf(r.project, Persisted.records)) <= 1

\* A start switched phase in a project that already had a closed record:
\* three records, exactly one of them open.
C1_Witness ==
  /\ Ran("start")
  /\ Persisted.records # loaded.records
  /\ Cardinality(RecordsOf(CurrentName(loaded), Persisted.records)) >= 3
  /\ Cardinality(OpenRecordsOf(CurrentName(loaded), loaded.records)) = 1
  /\ Cardinality(OpenRecordsOf(CurrentName(loaded), Persisted.records)) = 1

\* C2: start(B) while the current project's last record is open with
\* phase A # B changes the record set in exactly two ways: that record gets
\* end = t and one record (current, B, start = t, end = None) is added,
\* with the same t.
C2_PhaseSwitch ==
  (Ran("start") /\ Len(argv) = 2) =>
    \A r \in loaded.records :
      (/\ IsLatest(r, CurrentName(loaded), loaded.records)
       /\ r.end = None
       /\ r.phase # argv[2])
      => LET closed == [r EXCEPT !.end = Some(clock)]
             opened == Record(CurrentName(loaded), argv[2], clock, None)
         IN /\ Persisted.records = (loaded.records \ {r}) \cup {closed, opened}
            /\ closed \notin loaded.records
            /\ opened \notin loaded.records
            /\ Cardinality(Persisted.records) = Cardinality(loaded.records) + 1
            /\ closed.end = Some(opened.start)

\* start("A") then start("B") on a project with no records: exactly two
\* records, A closed at the instant B starts.
C2_Witness ==
  /\ Ran("start") /\ argv = <<"start", "B">>
  /\ \E t \in 1..MaxClock :
       /\ t < clock
       /\ RecordsOf(CurrentName(loaded), loaded.records)
            = {Record(CurrentName(loaded), "A", t, None)}
       /\ RecordsOf(CurrentName(loaded), Persisted.records)
            = {Record(CurrentName(loaded), "A", t, Some(clock)),
               Record(CurrentName(loaded), "B", clock, None)}

\* C3: start with no phase, or with the phase of the open last record,
\* leaves meta, the project set and the record set unchanged and exits 0;
\* the project keeps exactly one open record.
C3_StartIdempotent ==
  Ran("start") =>
    \A r \in loaded.records :
      (/\ IsLatest(r, CurrentName(loaded), loaded.records)
       /\ r.end = None
       /\ (Len(argv) = 1 \/ argv[2] = r.phase))
      => /\ Persisted = loaded
         /\ exit_code = 0
         /\ OpenRecordsOf(CurrentName(loaded), Persisted.records) = {r}

\* start("A") while the last record is an open A record.
C3_Witness ==
  /\ Ran("start") /\ argv = <<"start", "A">>
  /\ \E r \in loaded.records :
       /\ IsLatest(r, CurrentName(loaded), loaded.records)
       /\ r.end = None /\ r.phase = "A"
  /\ Cardinality(OpenRecordsOf(CurrentName(loaded), Persisted.records)) = 1

\* C4: start() with no phase while the last record is closed adds exactly
\* one record (current project, the last record's phase, start = now,
\* end = None) and leaves every other record as it was.
C4_Resume ==
  (Ran("start") /\ Len(argv) = 1) =>
    \A r \in loaded.records :
      (IsLatest(r, CurrentName(loaded), loaded.records) /\ r.end # None)
      => LET opened == Record(CurrentName(loaded), r.phase, clock, None)
         IN /\ Persisted.records = loaded.records \cup {opened}
            /\ opened \notin loaded.records

\* start() resumed phase B, the phase of the closed last record, in a
\* project whose earlier record has phase A.
C4_Witness ==
  /\ Ran("start") /\ argv = <<"start">>
  /\ \E r \in loaded.records :
       /\ IsLatest(r, CurrentName(loaded), loaded.records)
       /\ r.end # None /\ r.phase = "B"
       /\ \E s \in RecordsOf(CurrentName(loaded), loaded.records) : s.phase = "A"
       /\ Record(CurrentName(loaded), "B", clock, None) \in Persisted.records

\* C5: start() with no phase on a current project without records returns
\* exit code 1 and leaves meta, the project set and the record set unchanged.
C5_PhaseRequired ==
  (Ran("start") /\ Len(argv) = 1
     /\ RecordsOf(CurrentName(loaded), loaded.records) = {})
  => (exit_code = 1 /\ Persisted = loaded)

\* start() failed on a project without records while another project has some.
C5_Witness ==
  /\ Ran("start") /\ argv = <<"start">>
  /\ RecordsOf(CurrentName(loaded), loaded.records) = {}
  /\ loaded.records # {}
  /\ exit_code = 1

\* C6: with no current project (meta.current_project is None, or names no
\* project of the set that was loaded) start, end, remove-last and log exit
\* with a non-zero status and leave meta, the project set and the record
\* set unchanged.  For an invocation that has loaded such a store: its next
\* step is its exit, with a non-zero status and nothing handed to save, and
\* no step it takes after load() changes any of the three files.
C6_CurrentProjectRequired ==
  [][\A p \in Procs :
       (/\ procs[p].pc[1] \in {"run", "now", "row", "open", "dump"}
        /\ procs'[p] # procs[p]
        /\ procs[p].argv[1] \in {"start", "end", "remove-last", "log"}
        /\ ~HasCurrent(procs[p]))
       => /\ meta_file' = meta_file
          /\ projects_file' = projects_file
          /\ records_file' = records_file
          /\ procs'[p].pc = <<"idle", "">>
          /\ procs'[p].out.exit # 0
          /\ procs'[p].out.meta = None
          /\ procs'[p].out.projects = None
          /\ procs'[p].out.records = None
          /\ exit_code' # 0
          /\ argv' = procs[p].argv]_vars

\* start without a phase ran on a meta that names a project missing from
\* the project set it loaded (read between the two writes of a racing
\* project command), exited with status 1, and the record file holds no
\* record.
C6_Witness ==
  \E p \in Procs :
    /\ procs[p].pc = <<"idle", "">>
    /\ procs[p].argv = <<"start">>
    /\ procs[p].meta.current_project = Some("q")
    /\ procs[p].projects = {}
    /\ procs[p].out.exit = 1
    /\ argv = <<"start">> /\ exit_code = 1
    /\ meta_file = Some(Meta(Some("q")))
    /\ projects_file = Some({Project("q")})
    /\ records_file = Some({})

\* C7: project(name) with a non-empty name makes name the current project
\* and adds Project(name) only if the set has none of that name; the set
\* never holds two projects of one name and no command removes a project.
C7_ProjectCreateOrSwitch ==
  /\ (argv # <<>> /\ argv[1] = "project" /\ Len(argv) = 2 /\ argv[2] # "")
     => /\ Persisted.meta.current_project = Some(argv[2])
        /\ Persisted.projects = loaded.projects \cup {Project(argv[2])}
        /\ Cardinality(Persisted.projects) =
             Cardinality(loaded.projects)
               + (IF \E p \in loaded.projects : p.name = argv[2] THEN 0 ELSE 1)
  /\ \A p1, p2 \in Persisted.projects : p1.name = p2.name => p1 = p2
  /\ loaded.projects \subseteq Persisted.projects

\* project("p") was called again while "p" was the current and only project.
C7_Witness ==
  /\ argv = <<"project", "p">>
  /\ loaded.meta.current_project = Some("p")
  /\ loaded.projects = {Project("p")}
  /\ Persisted.projects = {Project("p")}
  /\ Persisted.meta.current_project = Some("p")

\* C8: remove_last() deletes exactly the current project's record of
\* greatest start and nothing else; without records it is a successful
\* no-op.
C8_RemoveLast ==
  Ran("remove-last") =>
    /\ exit_code = 0
    /\ Persisted.meta = loaded.meta
    /\ Persisted.projects = loaded.projects
    /\ IF RecordsOf(CurrentName(loaded), loaded.records) = {}
       THEN Persisted.records = loaded.records
       ELSE \E r \in loaded.records :
              /\ IsLatest(r, CurrentName(loaded), loaded.records)
              /\ Persisted.records = loaded.records \ {r}

\* remove_last() after a phase switch, with another project's later record
\* in the store: the open record is gone, the record the switch closed
\* keeps its end.
C8_Witness ==
  /\ Ran("remove-last")
  /\ \E t \in 1..MaxClock :
       /\ Record(CurrentName(loaded), "B", t, None) \in loaded.records
       /\ Record(CurrentName(loaded), "B", t, None) \notin Persisted.records
       /\ Record(CurrentName(loaded), "A", t - 1, Some(t)) \in Persisted.records
       /\ \E o \in Persisted.records :
            o.project # CurrentName(loaded) /\ o.start > t

\* C9: end() sets the end of the current project's record of greatest
\* start to now, open or already closed, and changes no other record;
\* without records it is a successful no-op.
C9_EndStampsLast ==
  Ran("end") =>
    /\ exit_code = 0
    /\ Persisted.meta = loaded.meta
    /\ Persisted.projects = loaded.projects
    /\ IF RecordsOf(CurrentName(loaded), loaded.records) = {}
       THEN Persisted.records = loaded.records
       ELSE \E r \in loaded.records :
              /\ IsLatest(r, CurrentName(loaded), loaded.records)
              /\ Persisted.records =
                   (loaded.records \ {r}) \cup {[r EXCEPT !.end = Some(clock)]}

\* A second end(): the last record was already closed and its end moved
\* to the later instant.
C9_Witness ==
  /\ Ran("end")
  /\ \E r \in loaded.records :
       /\ IsLatest(r, CurrentName(loaded), loaded.records)
       /\ r.end # None
       /\ Val(r.end) < clock
       /\ r \notin Persisted.records
       /\ [r EXCEPT !.end = Some(clock)] \in Persisted.records

\* C10: after end() the current project is idle: it has no record with
\* end = None.
C10_IdleAfterEnd ==
  Ran("end") => OpenRecordsOf(CurrentName(loaded), Persisted.records) = {}

\* end() closed the open last record of a project that has earlier records.
C10_Witness ==
  /\ Ran("end")
  /\ Cardinality(RecordsOf(CurrentName(loaded), loaded.records)) >= 2
  /\ OpenRecordsOf(CurrentName(loaded), loaded.records) # {}
  /\ OpenRecordsOf(CurrentName(loaded), Persisted.records) = {}

\* C11: with a clock that never goes backwards (two invocations may read
\* the same timestamp), every persisted record whose end is set has
\* start <= end.
C11_StartBeforeEnd ==
  \A r \in Persisted.records : r.end # None => r.start <= Val(r.end)

\* end() ran at the instant the last record started, and an earlier record
\* of the project was closed strictly after its start.
C11_Witness ==
  /\ Ran("end")
  /\ \E r \in Persisted.records :
       /\ r.project = CurrentName(loaded)
       /\ r.end = Some(r.start)
       /\ r.start = clock
       /\ [r EXCEPT !.end = None] \in loaded.records
  /\ \E r \in Persisted.records :
       r.project = CurrentName(loaded) /\ r.end # None /\ r.start < Val(r.end)

\* C19: with a non-decreasing clock and get_last_record returning any of
\* the records tied for the greatest start, no project has two records
\* with end = None.
C19_OneOpenRecordUnderTies ==
  \A name \in ProjectNames :
    Cardinality(OpenRecordsOf(name, Persisted.records)) < 2

\* A store file after an invocation that did not write it: created with
\* its default when it was absent, untouched otherwise.
NotWritten(file, default) == IF file = None THEN Some(default) ELSE file

\* C13: save writes only the stores it is given.  start, end and
\* remove_last leave the meta and projects files as they were; status, log
\* and project() without a name leave all three files as they were (a file
\* that was absent is created with its default).
C13_SaveWritesOnlyGiven ==
  [][(argv' # <<>>) =>
       /\ (argv'[1] \in {"start", "end", "remove-last"})
          => /\ meta_file' = NotWritten(meta_file, Meta(None))
             /\ projects_file' = NotWritten(projects_file, {})
       /\ (argv'[1] \in {"status", "log"} \/ argv' \in {<<"project">>, <<"project", "">>})
          => /\ meta_file' = NotWritten(meta_file, Meta(None))
             /\ projects_file' = NotWritten(projects_file, {})
             /\ records_file' = NotWritten(records_file, {})]_vars

\* start wrote a new record set while two projects exist and one is current.
C13_Witness ==
  /\ Ran("start")
  /\ Persisted.records # loaded.records
  /\ Cardinality(loaded.projects) = 2
  /\ Persisted.meta = loaded.meta
  /\ Persisted.projects = loaded.projects

\* C14: ensure_paths creates a store only when it is absent and never
\* overwrites one: every invocation that loads gets the stored content of
\* each existing store and the default of each absent one, leaves all three
\* stores existing, and if it only loads (status) leaves existing content
\* as it was.
C14_EnsurePathsKeepsStores ==
  [][(argv' # <<>> /\ argv'[1] # "usage") =>
       /\ loaded'.meta = (IF meta_file = None THEN Meta(None) ELSE Val(meta_file))
       /\ loaded'.projects = (IF projects_file = None THEN {} ELSE Val(projects_file))
       /\ loaded'.records = (IF records_file = None THEN {} ELSE Val(records_file))
       /\ meta_file' # None /\ projects_file' # None /\ records_file' # None
       /\ (argv'[1] = "status")
          => /\ meta_file' = NotWritten(meta_file, Meta(None))
             /\ projects_file' = NotWritten(projects_file, {})
             /\ records_file' = NotWritten(records_file, {})]_vars

\* status ran on stores that hold a current project and records, and load
\* still returns them.
C14_Witness ==
  /\ argv = <<"status">>
  /\ HasCurrent(loaded)
  /\ loaded.records # {}
  /\ meta_file = Some(loaded.meta)
  /\ projects_file = Some(loaded.projects)
  /\ records_file = Some(loaded.records)

\* C15: log prints, after the header row, exactly the records of the
\* current project, each once, in ascending order of start.
C15_LogOrdered ==
  Ran("log") =>
    LET rs == RecordsOf(CurrentName(loaded), loaded.records)
        key(x) == [phase |-> x.phase, start |-> x.start, end |-> x.end]
        rows == Tail(stdout)
    IN /\ exit_code = 0
       /\ stdout[1] = <<"PHASE", "START", "END", "DELTA">>
       /\ Len(rows) = Cardinality(rs)
       /\ {key(rows[i]) : i \in 1..Len(rows)} = {key(r) : r \in rs}
       /\ \A i, j \in 1..Len(rows) : i < j => rows[i].start <= rows[j].start

\* log printed the header and two rows while the store also holds another project's record.
C15_Witness ==
  /\ Ran("log")
  /\ Len(stdout) = 3
  /\ stdout[2].start < stdout[3].start
  /\ \E r \in loaded.records : r.project # CurrentName(loaded)

\* C16 as stated: remove_last() right after a start that added a record
\* restores the record set to what it was before that start.
C16_RemoveLastRestores ==
  [][(Ran("start") /\ Persisted.records # loaded.records
        /\ argv' = <<"remove-last">>)
     => Persisted'.records = loaded.records]_vars

\* C16, amended: remove_last() right after a start that added a record
\* leaves the record set as it was before that start, except that a record
\* of the current project that was open before the start stays closed at
\* the instant of the start.
C16_RemoveLastAfterStart ==
  [][(Ran("start") /\ Persisted.records # loaded.records
        /\ argv' = <<"remove-last">>)
     => Persisted'.records =
          {IF r.project = CurrentName(loaded) /\ r.end = None
           THEN [r EXCEPT !.end = Some(clock)] ELSE r : r \in loaded.records}]_vars

\* remove_last() ran one instant after a phase switch from A to B: B is
\* gone and A stays closed at the instant of the switch.
C16_Witness ==
  /\ Ran("remove-last")
  /\ \E r \in Persisted.records :
       /\ r.project = CurrentName(loaded) /\ r.phase = "A"
       /\ r.end = Some(clock - 1)
       /\ Record(CurrentName(loaded), "B", clock - 1, None)
            \in loaded.records \ Persisted.records
       /\ RecordsOf(CurrentName(loaded), Persisted.records) = {r}

\* C17: in sequential operation meta.current_project is None or the name
\* of a project in the project set, so get_current_project returns None
\* only when meta.current_project is None.
C17_CurrentProjectExists ==
  /\ (Persisted.meta.current_project = None \/ HasCurrent(Persisted))
  /\ (get_current_project(Persisted.meta, Persisted.projects) = None
        => Persisted.meta.current_project = None)

\* project("q") switched from "p" to a newly created "q".
C17_Witness ==
  /\ argv = <<"project", "q">>
  /\ loaded.meta.current_project = Some("p")
  /\ loaded.projects = {Project("p")}
  /\ Persisted.meta.current_project = Some("q")
  /\ Persisted.projects = {Project("p"), Project("q")}

\* C18: start, end and remove_last never add, change or delete a record of
\* a project other than the current one, and project(name) never changes
\* the record set.
C18_ProjectIsolation ==
  /\ (Ran("start") \/ Ran("end") \/ Ran("remove-last"))
     => {r \in Persisted.records : r.project # CurrentName(loaded)}
          = {r \in loaded.records : r.project # CurrentName(loaded)}
  /\ (argv # <<>> /\ argv[1] = "project") => Persisted.records = loaded.records

\* start ran in one project while the other project's record is open, and
\* that record is still open.
C18_Witness ==
  /\ Ran("start")
  /\ Persisted.records # loaded.records
  /\ \E r \in loaded.records :
       /\ r.project # CurrentName(loaded) /\ r.end = None
       /\ r \in Persisted.records
  /\ OpenRecordsOf(CurrentName(loaded), Persisted.records) # {}

\* C20: with a strictly increasing clock the records of one project never
\* overlap: of two records of a project the earlier one is closed, no
\* later than the other starts.
C20_NoOverlap ==
  \A r1, r2 \in Persisted.records :
    (r1.project = r2.project /\ r1.start < r2.start)
    => (r1.end # None /\ Val(r1.end) <= r2.start)

\* A project with three records: one closed by a phase switch, one closed
\* by end() and resumed after a gap.
C20_Witness ==
  \E r1, r2, r3 \in Persisted.records :
    /\ r1.project = r2.project /\ r2.project = r3.project
    /\ r1.end = Some(r2.start)
    /\ r2.end # None /\ Val(r2.end) < r3.start
    /\ r3.end = None

\* C12: without a lock the last writer wins.  When an invocation's save of
\* the record set completes, the file holds only records that this
\* invocation loaded, records it loaded and closed at its own reading of
\* now(), and the record its start opened at that reading: whatever
\* another invocation saved since this one loaded is gone.
C12_LastWriterWins ==
  [][\A p \in Procs :
       (/\ procs[p].pc = <<"dump", "records">>
        /\ procs'[p].pc = <<"idle", "">>)
       => \A r \in Val(records_file') :
            \/ r \in procs[p].records
            \/ /\ procs[p].argv[1] \in {"start", "end"}
               /\ \E x \in procs[p].records :
                    /\ x.project = CurrentName(procs[p])
                    /\ r = [x EXCEPT !.end = Some(procs[p].time)]
            \/ /\ procs[p].argv[1] = "start"
               /\ r.project = CurrentName(procs[p])
               /\ r.start = procs[p].time
               /\ r.end = None
               /\ IF Len(procs[p].argv) = 2
                  THEN r.phase = procs[p].argv[2]
                  ELSE \E x \in procs[p].records :
                         x.project = r.project /\ x.phase = r.phase]_vars

\* Two start invocations both loaded the empty record set of project p;
\* both returned 0; shell 1 saved its record A first, shell 2 saved last,
\* and the record of shell 1 is not in the file.
C12_Witness ==
  /\ procs[1].pc = <<"idle", "">> /\ procs[2].pc = <<"idle", "">>
  /\ procs[1].argv = <<"start", "A">> /\ procs[2].argv = <<"start", "B">>
  /\ procs[1].records = {} /\ procs[2].records = {}
  /\ procs[1].out.exit = 0 /\ procs[2].out.exit = 0
  /\ \E t1, t2 \in 1..(MaxRaceRuns + 1) :
       /\ procs[1].out.records = Some({Record("p", "A", t1, None)})
       /\ procs[2].out.records = Some({Record("p", "B", t2, None)})
       /\ records_file = Some({Record("p", "B", t2, None)})

====
